---- MODULE Spec2Model ----
(***************************************************************************)
(* TapeVault (src/tapevault.py): a tape library exposed as a read-only     *)
(* FUSE filesystem.  The model covers the catalog (tables tapes, files),   *)
(* the changer and the drive behind the external tools (mtx, ltfs,         *)
(* umount), the cache directory, the FUSE callbacks open / fetch_file run  *)
(* by several threads under tape_lock, the startup reconciler              *)
(* inventory_and_index / index_tape and the web route delete_tape.         *)
(***************************************************************************)
EXTENDS Integers, Sequences, FiniteSets, TLC

\* ------------------------------------------------------------------ bounds
NumThreads == 2         \* open() calls, each served by a FUSE thread of its own
MaxRuns == 2            \* starts of the program, calls of index_tape on one tape

\* ------------------------------------------------------------- the library
None == "None"
VOL001 == "VOL001"
VOL002 == "VOL002"
Tags == {VOL001, VOL002}
Slots == {"1", "2"}
Threads == 1..NumThreads
Free == 0

\* Tape-relative paths, as their sequences of characters: d/a, d/x, d/b, d/n.
P_a == <<"d", "/", "a">>
P_x == <<"d", "/", "x">>
P_b == <<"d", "/", "b">>
P_none == <<"d", "/", "n">>
Paths == {P_a, P_x, P_b}

\* The regular files of each tape as an LTFS mount shows them, in full.
FullContent(tag) == IF tag = VOL001 THEN {P_a, P_x} ELSE IF tag = VOL002 THEN {P_b} ELSE {}
HomeSlot(tag) == IF tag = VOL001 THEN "1" ELSE "2"

\* os.stat of a file on tape, os.statvfs of a mounted tape
Size(p) == IF p = P_b THEN 200 ELSE 100
Mtime(p) == IF p = P_b THEN 2000 ELSE 1000
TotalSpace(tag) == 1000
FreeSpace(tag) == IF tag = VOL001 THEN 400 ELSE 600

O_RDONLY == "O_RDONLY"
O_WRONLY == "O_WRONLY"
O_RDWR == "O_RDWR"
Flags == {O_RDONLY, O_WRONLY, O_RDWR}

VARIABLES
    slots,      \* changer: slot -> volume tag or None
    drive,      \* volume tag in the drive, or None
    drive_src,  \* slot the drive was loaded from (what a bare "mtx unload" returns to)
    mnt,        \* mount point (a tag's directory) holding the LTFS mount, or None
    ltfs,       \* tag -> the regular files on that tape
    cache,      \* cache file of <<tag, path>>: "absent", "partial" or "complete"
    tapes,      \* committed rows of table tapes
    files,      \* committed rows of table files
    db_lock,    \* the connection holding SQLite's write lock, or None
    tx_tapes,   \* table tapes as the open write transaction sees it
    tx_files,   \* table files as the open write transaction sees it
    seq,        \* sqlite_sequence of files: the largest id AUTOINCREMENT has issued
    tx_seq,     \* sqlite_sequence as the open write transaction sees it
    clock,      \* time.time(), in seconds
    tape_lock,  \* TapeVault.tape_lock: the holding thread, or Free
    pc,         \* per FUSE thread: where it is in open / fetch_file
    fr,         \* per FUSE thread: the locals of open / fetch_file
    rc_pc,      \* main thread: where it is in inventory_and_index / index_tape
    rc,         \* main thread: the locals of inventory_and_index / index_tape
    web_pc,     \* web thread: where it is in delete_tape
    web_vol,    \* web thread: delete_tape's vol_tag
    faulted,    \* observation: some tool run failed although the hardware permitted it
    hist        \* observation: counts of tool events

hw == <<slots, drive, drive_src, mnt>>
db == <<tapes, files, db_lock, tx_tapes, tx_files, seq, tx_seq>>
fuse == <<tape_lock, pc, fr>>
boot == <<rc_pc, rc, clock>>
web == <<web_pc, web_vol>>

vars == <<hw, ltfs, cache, db, fuse, boot, web, faulted, hist>>

Keys == Tags \X Paths

\* The values of one INSERT INTO files, of the INSERTs of one walk; the row
\* as stored, with the id AUTOINCREMENT gives it; its columns other than id.
FileRow(tag, p) == [vol_tag |-> tag, path |-> p, size |-> Size(p), mtime |-> Mtime(p)]
RowsOf(tag, ps) == {FileRow(tag, p) : p \in ps}
Stored(v, n) == [id |-> n, vol_tag |-> v.vol_tag, path |-> v.path, size |-> v.size,
                 mtime |-> v.mtime]
Cols(r) == [vol_tag |-> r.vol_tag, path |-> r.path, size |-> r.size, mtime |-> r.mtime]

\* The rows a run of INSERTs stores when the sequence stands at n (the order
\* of the INSERTs is the order of the walk).
RECURSIVE Numbered(_, _)
Numbered(values, n) ==
    IF values = {} THEN {}
    ELSE LET v == CHOOSE v \in values : TRUE
         IN  {Stored(v, n + 1)} \cup Numbered(values \ {v}, n + 1)
TapeRow(tag, seen, of) ==
    [vol_tag |-> tag, last_seen |-> seen, total_space |-> TotalSpace(of),
     free_space |-> FreeSpace(of)]

\* What open() gives its caller: a descriptor on the cache file (content: the
\* state of the file when it was opened) or an exception.
NoResult == [kind |-> "none", errno |-> None, flags |-> None, content |-> None]
Fd(fl, c) == [kind |-> "fd", errno |-> None, flags |-> fl, content |-> c]
ErrF(e, fl) == [kind |-> "err", errno |-> e, flags |-> fl, content |-> None]
Err(e) == ErrF(e, None)

\* The locals of one open() call (path, vol_tag, slot_id, in_drive, result)
\* and what is observed of the call: tools (it ran an external command),
\* cached (the cache file existed when open was called), found (fetch_file
\* found the cache file under the lock), copy_failed (its copy2 raised),
\* mount_failed (its ltfs mount failed), copied (its copy2 returned).
Frame0 == [path |-> P_none, vol_tag |-> None, slot_id |-> None,
           in_drive |-> FALSE, result |-> NoResult, tools |-> FALSE,
           cached |-> FALSE, found |-> FALSE, copy_failed |-> FALSE,
           mount_failed |-> FALSE, copied |-> FALSE]

\* The locals of inventory_and_index and of the index_tape call it is in.
\* todo: what the running for loop has yet to visit; raised: an exception is
\* on its way out of index_tape's try block.  Observed of the run: run (which
\* start of the program this is), in_sync (the catalog held exactly the tapes
\* of the library when the program started), indexed (the tapes whose
\* index_tape committed, reindexed: more than once), failed (the tapes whose
\* index_tape raised), mount_failed (the ltfs mount of the running index_tape
\* failed).
Rc0 == [tapes_in_library |-> [s \in Slots |-> None], drive_loaded |-> None,
        missing_tapes |-> {}, new_tapes |-> {}, todo |-> {}, vol |-> None,
        slot_id |-> None, loaded_by_us |-> FALSE, raised |-> FALSE,
        mount_failed |-> FALSE, run |-> 1, in_sync |-> FALSE, indexed |-> {}, reindexed |-> {}, failed |-> {}]

Hist0 == [mount |-> [g \in Tags |-> 0], copied |-> [k \in Keys |-> 0]]

\* ------------------------------------------------------------ the hardware
\* What the changer, the drive and LTFS permit; a tool run that is not
\* permitted exits non-zero and changes nothing.
CanLoad(s) == slots[s] # None /\ drive = None
CanUnloadTo(s) == drive # None /\ mnt = None /\ slots[s] = None
CanUnload == drive # None /\ mnt = None /\ drive_src # None /\ slots[drive_src] = None
CanMount == drive # None /\ mnt = None
CanUmount(mp) == mnt = mp

\* A tool run succeeds (ok) only when permitted; it may also fail when
\* permitted, which faulted records.
Outcome(ok, permitted) ==
    /\ ok => permitted
    /\ faulted' = (faulted \/ (~ok /\ permitted))

\* mtx -f <changer> status (parse_mtx_status reads the inventory; no effect)
mtx_status(ok) ==
    /\ Outcome(ok, TRUE)
    /\ UNCHANGED <<slots, drive, drive_src, mnt, hist>>

\* mtx load <slot> 0
mtx_load(s, ok) ==
    /\ Outcome(ok, CanLoad(s))
    /\ IF ok
       THEN /\ drive' = slots[s]
            /\ slots' = [slots EXCEPT ![s] = None]
            /\ drive_src' = s
       ELSE UNCHANGED <<drive, slots, drive_src>>
    /\ UNCHANGED <<mnt, hist>>

\* mtx unload <slot> 0
mtx_unload_to(s, ok) ==
    /\ Outcome(ok, CanUnloadTo(s))
    /\ IF ok
       THEN /\ slots' = [slots EXCEPT ![s] = drive]
            /\ drive' = None
            /\ drive_src' = None
       ELSE UNCHANGED <<drive, slots, drive_src>>
    /\ UNCHANGED <<mnt, hist>>

\* mtx unload (no slot: back to the slot the drive was loaded from)
mtx_unload(ok) ==
    /\ Outcome(ok, CanUnload)
    /\ IF ok
       THEN /\ slots' = [slots EXCEPT ![drive_src] = drive]
            /\ drive' = None
            /\ drive_src' = None
       ELSE UNCHANGED <<drive, slots, drive_src>>
    /\ UNCHANGED <<mnt, hist>>

\* ltfs -o devname=<tape device> <mount point>
ltfs_mount(mp, ok) ==
    /\ Outcome(ok, CanMount)
    /\ IF ok
       THEN /\ mnt' = mp
            /\ hist' = [hist EXCEPT !.mount[drive] = @ + 1]
       ELSE UNCHANGED <<mnt, hist>>
    /\ UNCHANGED <<slots, drive, drive_src>>

\* umount <mount point> || fusermount -u <mount point>
umount(mp, ok) ==
    /\ Outcome(ok, CanUmount(mp))
    /\ mnt' = IF ok THEN None ELSE mnt
    /\ UNCHANGED <<slots, drive, drive_src, hist>>

\* parse_mtx_status: the slot holding tag in the probed inventory, or None
SlotOf(tag) == IF \E s \in Slots : slots[s] = tag
               THEN CHOOSE s \in Slots : slots[s] = tag
               ELSE None

\* ------------------------------------------------- TapeVault.open / fetch_file
Key(t) == <<fr[t].vol_tag, fr[t].path>>
Exists(k) == cache[k] # "absent"

Goto(t, label, f) ==
    /\ pc' = [pc EXCEPT ![t] = label]
    /\ fr' = [fr EXCEPT ![t] = f]

Tool(f) == [f EXCEPT !.tools = TRUE]

\* fetch_file returns or raises: its locals are gone
Leave(f) == [f EXCEPT !.slot_id = None, !.in_drive = FALSE]

\* os.open(cache_path, flags): the descriptor, or (write access refused by the
\* mode bits copy2 carried over from the tape) EACCES.  open passes flags
\* through and reads it nowhere else, so the caller's flags are drawn here.
os_open(k) ==
    {Fd(fl, cache[k]) : fl \in Flags} \cup {ErrF("EACCES", fl) : fl \in Flags \ {O_RDONLY}}

\* open, lines 282-290: the catalog lookup
open_lookup(t) ==
    /\ pc[t] = "idle"
    /\ \E path \in Paths \cup {P_none} :
        LET rows == {r \in files : r.path = path}
            f == [Frame0 EXCEPT !.path = path]
        IN  IF rows = {}
            THEN Goto(t, "done", [f EXCEPT !.result = Err("ENOENT")])
            ELSE \E r \in rows :
                    Goto(t, "open_exists", [f EXCEPT !.vol_tag = r.vol_tag,
                                                     !.cached = Exists(<<r.vol_tag, path>>)])
    /\ UNCHANGED <<hw, ltfs, cache, db, tape_lock, boot, web, faulted, hist>>

\* open without its fast path: every call goes through fetch_file
open_exists_no_fast_path(t) ==
    /\ pc[t] = "open_exists"
    /\ Goto(t, "fetch_lock", fr[t])
    /\ UNCHANGED <<hw, ltfs, cache, db, tape_lock, boot, web, faulted, hist>>

\* open, lines 291-295: the cache-hit fast path, or on to fetch_file
open_exists(t) ==
    /\ pc[t] = "open_exists"
    /\ IF Exists(Key(t))
       THEN \E res \in os_open(Key(t)) :
                Goto(t, "done", [fr[t] EXCEPT !.result = res])
       ELSE Goto(t, "fetch_lock", fr[t])
    /\ UNCHANGED <<hw, ltfs, cache, db, tape_lock, boot, web, faulted, hist>>

\* fetch_file entering its body without waiting for tape_lock
fetch_lock_unguarded(t) ==
    /\ pc[t] = "fetch_lock"
    /\ tape_lock' = t
    /\ Goto(t, "fetch_exists", fr[t])
    /\ UNCHANGED <<hw, ltfs, cache, db, boot, web, faulted, hist>>

\* fetch_file, line 302: with self.tape_lock
fetch_lock(t) ==
    /\ pc[t] = "fetch_lock"
    /\ tape_lock = Free
    /\ tape_lock' = t
    /\ Goto(t, "fetch_exists", fr[t])
    /\ UNCHANGED <<hw, ltfs, cache, db, boot, web, faulted, hist>>

\* fetch_file without its second look at the cache
fetch_exists_no_check(t) ==
    /\ pc[t] = "fetch_exists"
    /\ Goto(t, "fetch_probe", fr[t])
    /\ UNCHANGED <<hw, ltfs, cache, db, tape_lock, boot, web, faulted, hist>>

\* fetch_file, lines 303-305: the second look at the cache, under the lock
fetch_exists(t) ==
    /\ pc[t] = "fetch_exists"
    /\ IF Exists(Key(t))
       THEN /\ tape_lock' = Free
            /\ Goto(t, "open_recheck", [fr[t] EXCEPT !.found = TRUE])
       ELSE /\ UNCHANGED tape_lock
            /\ Goto(t, "fetch_probe", fr[t])
    /\ UNCHANGED <<hw, ltfs, cache, db, boot, web, faulted, hist>>

\* fetch_file, lines 308-320: probe the changer, find the tape
fetch_probe(t) ==
    /\ pc[t] = "fetch_probe"
    /\ \E ok \in BOOLEAN :
        /\ mtx_status(ok)
        /\ LET f == [Tool(fr[t]) EXCEPT !.slot_id = SlotOf(fr[t].vol_tag),
                                        !.in_drive = (drive = fr[t].vol_tag)]
           IN  IF ~ok
               THEN /\ tape_lock' = Free
                    /\ Goto(t, "done", [Leave(Tool(fr[t])) EXCEPT !.result = Err("CalledProcessError")])
               ELSE IF ~f.in_drive /\ f.slot_id = None
               THEN /\ tape_lock' = Free
                    /\ Goto(t, "open_recheck", Leave(f))
               ELSE /\ UNCHANGED tape_lock
                    /\ Goto(t, IF f.in_drive THEN "fetch_mount" ELSE "fetch_unload", f)
    /\ UNCHANGED <<ltfs, cache, db, boot, web>>

\* fetch_file, line 324: mtx unload || true (its failure is discarded)
fetch_unload(t) ==
    /\ pc[t] = "fetch_unload"
    /\ \E ok \in BOOLEAN : mtx_unload(ok)
    /\ Goto(t, "fetch_load", Tool(fr[t]))
    /\ UNCHANGED <<ltfs, cache, db, tape_lock, boot, web>>

\* fetch_file with acquire()/release() in place of the with statement: the
\* exception of a failed load leaves with the lock held
fetch_load_lock_kept(t) ==
    /\ pc[t] = "fetch_load"
    /\ \E ok \in BOOLEAN :
        /\ mtx_load(fr[t].slot_id, ok)
        /\ IF ok
           THEN Goto(t, "fetch_mount", Tool(fr[t]))
           ELSE Goto(t, "done", [Leave(Tool(fr[t])) EXCEPT !.result = Err("CalledProcessError")])
    /\ UNCHANGED <<ltfs, cache, db, tape_lock, boot, web>>

\* fetch_file, line 326: mtx load; a failure leaves fetch_file by the exception
fetch_load(t) ==
    /\ pc[t] = "fetch_load"
    /\ \E ok \in BOOLEAN :
        /\ mtx_load(fr[t].slot_id, ok)
        /\ IF ok
           THEN /\ UNCHANGED tape_lock
                /\ Goto(t, "fetch_mount", Tool(fr[t]))
           ELSE /\ tape_lock' = Free
                /\ Goto(t, "done", [Leave(Tool(fr[t])) EXCEPT !.result = Err("CalledProcessError")])
    /\ UNCHANGED <<ltfs, cache, db, boot, web>>

\* fetch_file, lines 332-333: ltfs mount, inside the try
fetch_mount(t) ==
    /\ pc[t] = "fetch_mount"
    /\ \E ok \in BOOLEAN :
        /\ ltfs_mount(fr[t].vol_tag, ok)
        /\ Goto(t, IF ok THEN "fetch_copy" ELSE "fetch_umount",
                [Tool(fr[t]) EXCEPT !.mount_failed = ~ok])
    /\ UNCHANGED <<ltfs, cache, db, tape_lock, boot, web>>

\* fetch_file, lines 335-341: shutil.copy2 opens the source and creates the
\* destination; a failure here (source unreadable, makedirs) leaves no file
fetch_copy(t) ==
    /\ pc[t] = "fetch_copy"
    /\ \E ok \in BOOLEAN :
        /\ Outcome(ok, fr[t].path \in ltfs[drive])
        /\ IF ok
           THEN /\ cache' = [cache EXCEPT ![Key(t)] = "partial"]
                /\ Goto(t, "fetch_copying", fr[t])
           ELSE /\ UNCHANGED cache
                /\ Goto(t, "fetch_umount", [fr[t] EXCEPT !.copy_failed = TRUE])
    /\ UNCHANGED <<hw, ltfs, db, tape_lock, boot, web, hist>>

\* fetch_file, line 341: copy2 writes the data; a failure while writing is
\* caught at line 344 and the file written so far stays
fetch_copying(t) ==
    /\ pc[t] = "fetch_copying"
    /\ \E ok \in BOOLEAN :
        /\ Outcome(ok, TRUE)
        /\ IF ok
           THEN /\ cache' = [cache EXCEPT ![Key(t)] = "complete"]
                /\ hist' = [hist EXCEPT !.copied[Key(t)] = @ + 1]
           ELSE UNCHANGED <<cache, hist>>
        /\ Goto(t, "fetch_umount", [fr[t] EXCEPT !.copy_failed = ~ok, !.copied = ok])
    /\ UNCHANGED <<hw, ltfs, db, tape_lock, boot, web>>

\* fetch_file releasing the lock only at the end of its finally block: the
\* exception of a failed unmount leaves with the lock held
fetch_umount_lock_kept(t) ==
    /\ pc[t] = "fetch_umount"
    /\ \E ok \in BOOLEAN :
        /\ umount(fr[t].vol_tag, ok)
        /\ IF ~ok
           THEN /\ UNCHANGED tape_lock
                /\ Goto(t, "done", [Leave(Tool(fr[t])) EXCEPT !.result = Err("CalledProcessError")])
           ELSE IF fr[t].in_drive
           THEN /\ tape_lock' = Free
                /\ Goto(t, "open_recheck", Leave(Tool(fr[t])))
           ELSE /\ UNCHANGED tape_lock
                /\ Goto(t, "fetch_unload_back", Tool(fr[t]))
    /\ UNCHANGED <<ltfs, cache, db, boot, web>>

\* fetch_file, line 347 (finally): unmount; a failure leaves by the exception
fetch_umount(t) ==
    /\ pc[t] = "fetch_umount"
    /\ \E ok \in BOOLEAN :
        /\ umount(fr[t].vol_tag, ok)
        /\ IF ~ok
           THEN /\ tape_lock' = Free
                /\ Goto(t, "done", [Leave(Tool(fr[t])) EXCEPT !.result = Err("CalledProcessError")])
           ELSE IF fr[t].in_drive
           THEN /\ tape_lock' = Free
                /\ Goto(t, "open_recheck", Leave(Tool(fr[t])))
           ELSE /\ UNCHANGED tape_lock
                /\ Goto(t, "fetch_unload_back", Tool(fr[t]))
    /\ UNCHANGED <<ltfs, cache, db, boot, web>>

\* fetch_file, lines 348-349 (finally): mtx unload <slot> 0
fetch_unload_back(t) ==
    /\ pc[t] = "fetch_unload_back"
    /\ \E ok \in BOOLEAN :
        /\ mtx_unload_to(fr[t].slot_id, ok)
        /\ IF ok
           THEN Goto(t, "open_recheck", Leave(Tool(fr[t])))
           ELSE Goto(t, "done", [Leave(Tool(fr[t])) EXCEPT !.result = Err("CalledProcessError")])
    /\ tape_lock' = Free
    /\ UNCHANGED <<ltfs, cache, db, boot, web>>

\* open without its check after fetch_file: os.open raises on the missing file
open_recheck_unchecked(t) ==
    /\ pc[t] = "open_recheck"
    /\ IF ~Exists(Key(t))
       THEN Goto(t, "done", [fr[t] EXCEPT !.result = Err("ENOENT")])
       ELSE \E res \in os_open(Key(t)) :
                Goto(t, "done", [fr[t] EXCEPT !.result = res])
    /\ UNCHANGED <<hw, ltfs, cache, db, tape_lock, boot, web, faulted, hist>>

\* open, lines 296-299: after fetch_file returned
open_recheck(t) ==
    /\ pc[t] = "open_recheck"
    /\ IF ~Exists(Key(t))
       THEN Goto(t, "done", [fr[t] EXCEPT !.result = Err("EIO")])
       ELSE \E res \in os_open(Key(t)) :
                Goto(t, "done", [fr[t] EXCEPT !.result = res])
    /\ UNCHANGED <<hw, ltfs, cache, db, tape_lock, boot, web, faulted, hist>>

\* the callback returns to FUSE
open_return(t) ==
    /\ pc[t] = "done"
    /\ Goto(t, "returned", Frame0)
    /\ UNCHANGED <<hw, ltfs, cache, db, tape_lock, boot, web, faulted, hist>>

\* ------------------------------------------------------ getattr / readdir
\* str.lstrip('/')
RECURSIVE lstrip(_)
lstrip(path) == IF path # <<>> /\ Head(path) = "/" THEN lstrip(Tail(path)) ELSE path

\* SQLite's LIKE: % matches any run of characters, _ any one character, and
\* ASCII letters match without regard to case (the letters of the model's
\* alphabet are a, b, d, n, x, y and A, D).
Lower(c) == IF c = "A" THEN "a" ELSE IF c = "D" THEN "d" ELSE c

RECURSIVE Like(_, _)
Like(pattern, str) ==
    IF pattern = <<>> THEN str = <<>>
    ELSE IF Head(pattern) = "%"
    THEN \E k \in 0..Len(str) : Like(Tail(pattern), SubSeq(str, k + 1, Len(str)))
    ELSE IF str = <<>> THEN FALSE
    ELSE /\ (Head(pattern) = "_" \/ Lower(Head(pattern)) = Lower(Head(str)))
         /\ Like(Tail(pattern), Tail(str))

StDir == [kind |-> "dir", st_mode |-> <<"S_IFDIR", "0755">>, st_nlink |-> 2,
          st_size |-> None, st_mtime |-> None, errno |-> None]
StFile(r) == [kind |-> "file", st_mode |-> <<"S_IFREG", "0444">>, st_nlink |-> 1,
              st_size |-> r.size, st_mtime |-> r.mtime, errno |-> None]
StErr(e) == [kind |-> "err", st_mode |-> None, st_nlink |-> None,
             st_size |-> None, st_mtime |-> None, errno |-> e]

\* TapeVault.getattr: what the call may return (fetchone takes whichever row
\* of the path the query yields first)
getattr(path) ==
    IF path = <<"/">> THEN {StDir}
    ELSE LET clean_path == lstrip(path)
             rows == {r \in files : r.path = clean_path}
         IN  IF rows # {} THEN {StFile(r) : r \in rows}
             ELSE IF \E r \in files : Like(clean_path \o <<"/", "%">>, r.path)
             THEN {StDir}
             ELSE {StErr("ENOENT")}

\* The first path segment of a string: str.split('/')[0]
RECURSIVE FirstSegment(_)
FirstSegment(str) ==
    IF str = <<>> \/ Head(str) = "/" THEN <<>>
    ELSE <<Head(str)>> \o FirstSegment(Tail(str))

InSeq(x, sq) == \E i \in 1..Len(sq) : sq[i] = x

\* readdir's loop over fetchall(), the rows taken in the order of their ids:
\* p[len(prefix):].split('/')[0], appended when not empty and not yet seen
RECURSIVE Dirents(_, _, _)
Dirents(rows, prefix, dirents) ==
    IF rows = {} THEN dirents
    ELSE LET row == CHOOSE r \in rows : \A q \in rows : r.id <= q.id
             remainder == SubSeq(row.path, Len(prefix) + 1, Len(row.path))
             child == FirstSegment(remainder)
         IN  Dirents(rows \ {row}, prefix,
                     IF child # <<>> /\ ~InSeq(child, dirents)
                     THEN Append(dirents, child) ELSE dirents)

\* TapeVault.readdir
readdir(path) ==
    LET clean_path == lstrip(path)
        prefix == IF clean_path # <<>> THEN clean_path \o <<"/">> ELSE <<>>
        rows == {r \in files : Like(prefix \o <<"%">>, r.path)}
    IN  [kind |-> "dirents", dirents |-> Dirents(rows, prefix, << <<".">>, <<".", ".">> >>)]

\* The paths of the files on the tapes, and the paths the kernel asks for,
\* where getattr and readdir are checked: a/x, a/y, b; /, /a, /A, /_, /a/x,
\* /b, /n.
NamePaths == {<<"a", "/", "x">>, <<"a", "/", "y">>, <<"b">>}
Queries == {<<"/">>, <<"/", "a">>, <<"/", "A">>, <<"/", "_">>, <<"/", "a", "/", "x">>,
            <<"/", "b">>, <<"/", "n">>}

\* a FUSE thread serving getattr; the callback holds no lock and writes nothing
getattr_call(t) ==
    /\ pc[t] = "idle"
    /\ \E path \in Queries : \E st \in getattr(path) :
            Goto(t, "done", [Frame0 EXCEPT !.path = path, !.result = st])
    /\ UNCHANGED <<hw, ltfs, cache, db, tape_lock, boot, web, faulted, hist>>

\* a FUSE thread serving readdir
readdir_call(t) ==
    /\ pc[t] = "idle"
    /\ \E path \in Queries :
            Goto(t, "done", [Frame0 EXCEPT !.path = path, !.result = readdir(path)])
    /\ UNCHANGED <<hw, ltfs, cache, db, tape_lock, boot, web, faulted, hist>>

\* ------------------------------------------------------------- the catalog
\* SQLite: one write transaction at a time; its statements are seen by the
\* others at commit.  c names the connection: "rec" (inventory_and_index),
\* "idx" (index_tape), "web" (delete_tape).
CanWrite(c) == db_lock \in {None, c}
Busy(c) == ~CanWrite(c)
TxTapes(c) == IF db_lock = c THEN tx_tapes ELSE tapes
TxFiles(c) == IF db_lock = c THEN tx_files ELSE files
TxSeq(c) == IF db_lock = c THEN tx_seq ELSE seq

sql_write(c, new_tapes, new_files, new_seq) ==
    /\ CanWrite(c)
    /\ db_lock' = c
    /\ tx_tapes' = new_tapes
    /\ tx_files' = new_files
    /\ tx_seq' = new_seq
    /\ UNCHANGED <<tapes, files, seq>>

\* DELETE FROM files WHERE vol_tag=?
sql_delete_files(c, v) ==
    sql_write(c, TxTapes(c), {r \in TxFiles(c) : r.vol_tag # v}, TxSeq(c))

\* DELETE FROM tapes WHERE vol_tag=?
sql_delete_tapes(c, v) ==
    sql_write(c, {r \in TxTapes(c) : r.vol_tag # v}, TxFiles(c), TxSeq(c))

\* INSERT INTO files ..., once per file of the walk
sql_insert_files(c, values) ==
    sql_write(c, TxTapes(c), TxFiles(c) \cup Numbered(values, TxSeq(c)),
              TxSeq(c) + Cardinality(values))

\* INSERT OR REPLACE INTO tapes ... (vol_tag is the primary key)
sql_replace_tape(c, row) ==
    sql_write(c, {r \in TxTapes(c) : r.vol_tag # row.vol_tag} \cup {row}, TxFiles(c),
              TxSeq(c))

\* conn.commit()
sql_commit(c) ==
    IF db_lock = c
    THEN /\ tapes' = tx_tapes
         /\ files' = tx_files
         /\ seq' = tx_seq
         /\ db_lock' = None
         /\ tx_tapes' = {}
         /\ tx_files' = {}
         /\ tx_seq' = 0
    ELSE UNCHANGED db

\* a connection dropped with its transaction open
sql_rollback(c) ==
    IF db_lock = c
    THEN /\ db_lock' = None
         /\ tx_tapes' = {}
         /\ tx_files' = {}
         /\ tx_seq' = 0
         /\ UNCHANGED <<tapes, files, seq>>
    ELSE UNCHANGED db

VolTags(rows) == {r.vol_tag : r \in rows}

\* ------------------------------------------------------ inventory_and_index
RcGoto(label, f) ==
    /\ rc_pc' = label
    /\ rc' = f

\* line 129: parse_mtx_status(); its failure ends the program
rec_probe ==
    /\ rc_pc = "rec_probe"
    /\ \E ok \in BOOLEAN :
        /\ mtx_status(ok)
        /\ IF ok
           THEN RcGoto("rec_select", [rc EXCEPT !.tapes_in_library = slots,
                                                !.drive_loaded = drive])
           ELSE RcGoto("rec_crashed", rc)
    /\ UNCHANGED <<ltfs, cache, db, fuse, clock, web>>

\* the reconciler counting only the tapes in slots as present
rec_select_slots_only ==
    /\ rc_pc = "rec_select"
    /\ LET current_vol_tags == {rc.tapes_in_library[s] : s \in Slots} \ {None}
           db_vol_tags == VolTags(tapes)
       IN  RcGoto("rec_drop", [rc EXCEPT !.missing_tapes = db_vol_tags \ current_vol_tags,
                                         !.new_tapes = current_vol_tags \ db_vol_tags,
                                         !.todo = db_vol_tags \ current_vol_tags])
    /\ UNCHANGED <<hw, ltfs, cache, db, fuse, clock, web, faulted, hist>>

\* the reconciler indexing every tape present, known or not
rec_select_reindex_all ==
    /\ rc_pc = "rec_select"
    /\ LET current_vol_tags ==
               ({rc.tapes_in_library[s] : s \in Slots} \cup {rc.drive_loaded}) \ {None}
           db_vol_tags == VolTags(tapes)
       IN  RcGoto("rec_drop", [rc EXCEPT !.missing_tapes = db_vol_tags \ current_vol_tags,
                                         !.new_tapes = current_vol_tags,
                                         !.todo = db_vol_tags \ current_vol_tags])
    /\ UNCHANGED <<hw, ltfs, cache, db, fuse, clock, web, faulted, hist>>

\* lines 131-142, 150: the tags present, the tags known, their differences
rec_select ==
    /\ rc_pc = "rec_select"
    /\ LET current_vol_tags ==
               ({rc.tapes_in_library[s] : s \in Slots} \cup {rc.drive_loaded}) \ {None}
           db_vol_tags == VolTags(tapes)
       IN  RcGoto("rec_drop", [rc EXCEPT !.missing_tapes = db_vol_tags \ current_vol_tags,
                                         !.new_tapes = current_vol_tags \ db_vol_tags,
                                         !.todo = db_vol_tags \ current_vol_tags])
    /\ UNCHANGED <<hw, ltfs, cache, db, fuse, clock, web, faulted, hist>>

\* the reconciler leaving the files rows of a missing tape in place
rec_drop_files_forgotten ==
    /\ rc_pc = "rec_drop"
    /\ rc.todo # {}
    /\ \E vol \in rc.todo :
        /\ sql_write("rec", TxTapes("rec"), TxFiles("rec"), TxSeq("rec"))
        /\ RcGoto("rec_drop_tapes", [rc EXCEPT !.vol = vol])
    /\ UNCHANGED <<hw, ltfs, cache, fuse, clock, web, faulted, hist>>

\* lines 143-145: the next missing tape, its files rows; "database is locked"
\* (the web route holds the write lock for too long) ends the program
rec_drop_files ==
    /\ rc_pc = "rec_drop"
    /\ rc.todo # {}
    /\ \/ \E vol \in rc.todo :
            /\ sql_delete_files("rec", vol)
            /\ RcGoto("rec_drop_tapes", [rc EXCEPT !.vol = vol])
       \/ /\ Busy("rec")
          /\ RcGoto("rec_crashed", rc)
          /\ UNCHANGED db
    /\ UNCHANGED <<hw, ltfs, cache, fuse, clock, web, faulted, hist>>

\* line 146: its tapes row
rec_drop_tapes ==
    /\ rc_pc = "rec_drop_tapes"
    /\ sql_delete_tapes("rec", rc.vol)
    /\ RcGoto("rec_drop", [rc EXCEPT !.todo = @ \ {rc.vol}, !.vol = None])
    /\ UNCHANGED <<hw, ltfs, cache, fuse, clock, web, faulted, hist>>

\* lines 147-157: commit the removals; return if there is nothing to index
rec_commit ==
    /\ rc_pc = "rec_drop"
    /\ rc.todo = {}
    /\ sql_commit("rec")
    /\ RcGoto(IF rc.new_tapes = {} THEN "rec_done" ELSE "rec_index",
              [rc EXCEPT !.todo = rc.new_tapes])
    /\ UNCHANGED <<hw, ltfs, cache, fuse, clock, web, faulted, hist>>

\* what vol_to_slot.get(vol) gives (line 159, 163)
VolToSlot(vol) ==
    IF \E s \in Slots : rc.tapes_in_library[s] = vol
    THEN CHOOSE s \in Slots : rc.tapes_in_library[s] = vol
    ELSE None

\* lines 161-163, 175-180: the next new tape, index_tape called on it
rec_index ==
    /\ rc_pc = "rec_index"
    /\ rc.todo # {}
    /\ \E vol \in rc.todo :
        RcGoto(IF rc.drive_loaded = vol THEN "idx_mount" ELSE "idx_unload",
               [rc EXCEPT !.todo = @ \ {vol}, !.vol = vol, !.slot_id = VolToSlot(vol),
                          !.loaded_by_us = FALSE, !.raised = FALSE,
                          !.mount_failed = FALSE])
    /\ UNCHANGED <<hw, ltfs, cache, db, fuse, clock, web, faulted, hist>>

\* line 167: the loop is over
rec_return ==
    /\ rc_pc = "rec_index"
    /\ rc.todo = {}
    /\ RcGoto("rec_done", rc)
    /\ UNCHANGED <<hw, ltfs, cache, db, fuse, clock, web, faulted, hist>>

\* The tags of the tapes in the library, in a slot or in the drive.
PresentTags == ({slots[s] : s \in Slots} \cup {drive}) \ {None}

\* The program is started again (lines 660-671) after inventory_and_index
\* returned or died: init_db finds its tables, the library is as it was left.
restart ==
    /\ rc_pc \in {"rec_done", "rec_crashed"}
    /\ rc.run < MaxRuns
    /\ RcGoto("rec_probe", [Rc0 EXCEPT !.run = rc.run + 1,
                                       !.in_sync = (VolTags(tapes) = PresentTags)])
    /\ UNCHANGED <<hw, ltfs, cache, db, fuse, clock, web, faulted, hist>>

\* A caller of index_tape that, its calls done, probes the changer again and
\* calls index_tape on tapes of its choice, in the catalog or not.
index_again ==
    /\ rc_pc = "rec_index"
    /\ rc.todo = {}
    /\ rc.run < MaxRuns
    /\ \E chosen \in SUBSET PresentTags :
        /\ chosen # {}
        /\ RcGoto("rec_index", [rc EXCEPT !.tapes_in_library = slots, !.drive_loaded = drive,
                                          !.todo = chosen, !.run = @ + 1])
    /\ UNCHANGED <<hw, ltfs, cache, db, fuse, clock, web, faulted, hist>>

\* index_tape returns or raises to line 164: its locals and its connection
\* are gone, an open transaction with them
\* the loop without its try/except: an exception of index_tape ends the program
IdxLeave_uncaught(exc) ==
    /\ RcGoto(IF exc \/ rc.raised THEN "rec_crashed" ELSE "rec_index",
              [rc EXCEPT !.vol = None, !.slot_id = None,
                         !.loaded_by_us = FALSE, !.raised = FALSE,
                         !.mount_failed = FALSE])
    /\ sql_rollback("idx")

IdxLeave(exc) ==
    /\ RcGoto("rec_index", [rc EXCEPT !.vol = None, !.slot_id = None,
                                      !.loaded_by_us = FALSE, !.raised = FALSE,
                                      !.mount_failed = FALSE,
                                      !.failed = IF exc \/ rc.raised
                                                 THEN @ \cup {rc.vol} ELSE @])
    /\ sql_rollback("idx")

\* ---------------------------------------------------------------- index_tape
\* lines 181-184: mtx unload || true, then the slot must be known
idx_unload ==
    /\ rc_pc = "idx_unload"
    /\ \E ok \in BOOLEAN : mtx_unload(ok)
    /\ IF rc.slot_id = None
       THEN IdxLeave(TRUE)
       ELSE RcGoto("idx_load", rc) /\ UNCHANGED db
    /\ UNCHANGED <<ltfs, cache, fuse, clock, web>>

\* lines 186-188: mtx load; a failure leaves index_tape by the exception
idx_load ==
    /\ rc_pc = "idx_load"
    /\ \E ok \in BOOLEAN :
        /\ mtx_load(rc.slot_id, ok)
        /\ IF ok
           THEN RcGoto("idx_mount", [rc EXCEPT !.loaded_by_us = TRUE]) /\ UNCHANGED db
           ELSE IdxLeave(TRUE)
    /\ UNCHANGED <<ltfs, cache, fuse, clock, web>>

\* lines 196-197: ltfs mount, inside the try
idx_mount ==
    /\ rc_pc = "idx_mount"
    /\ \E ok \in BOOLEAN :
        /\ ltfs_mount(rc.vol, ok)
        /\ IF ok
           THEN RcGoto("idx_delete", rc)
           ELSE RcGoto("idx_umount", [rc EXCEPT !.raised = TRUE, !.mount_failed = TRUE])
    /\ UNCHANGED <<ltfs, cache, db, fuse, clock, web>>

\* index_tape without its DELETE
idx_delete_skipped ==
    /\ rc_pc = "idx_delete"
    /\ \/ /\ sql_write("idx", TxTapes("idx"), TxFiles("idx"), TxSeq("idx"))
          /\ RcGoto("idx_walk", rc)
       \/ /\ Busy("idx")
          /\ RcGoto("idx_umount", [rc EXCEPT !.raised = TRUE])
          /\ UNCHANGED db
    /\ UNCHANGED <<hw, ltfs, cache, fuse, clock, web, faulted, hist>>

\* lines 205-208: DELETE FROM files for the tag, or "database is locked"
idx_delete ==
    /\ rc_pc = "idx_delete"
    /\ \/ /\ sql_delete_files("idx", rc.vol)
          /\ RcGoto("idx_walk", rc)
       \/ /\ Busy("idx")
          /\ RcGoto("idx_umount", [rc EXCEPT !.raised = TRUE])
          /\ UNCHANGED db
    /\ UNCHANGED <<hw, ltfs, cache, fuse, clock, web, faulted, hist>>

\* what os.walk(mount_point) finds: the files of the tape in the drive
Walk == IF mnt = rc.vol /\ drive # None THEN ltfs[drive] ELSE {}

\* lines 210-218: one files row per file found; os.stat may raise
idx_walk ==
    /\ rc_pc = "idx_walk"
    /\ \E ok \in BOOLEAN :
        /\ Outcome(ok, TRUE)
        /\ IF ok
           THEN /\ sql_insert_files("idx", RowsOf(rc.vol, Walk))
                /\ RcGoto("idx_replace", rc)
           ELSE /\ UNCHANGED db
                /\ RcGoto("idx_umount", [rc EXCEPT !.raised = TRUE])
    /\ UNCHANGED <<hw, ltfs, cache, fuse, clock, web, hist>>

\* lines 220-221: the tapes row, with the time and the statvfs figures
idx_replace ==
    /\ rc_pc = "idx_replace"
    /\ sql_replace_tape("idx", TapeRow(rc.vol, clock, drive))
    /\ clock' = clock + 1
    /\ RcGoto("idx_commit", rc)
    /\ UNCHANGED <<hw, ltfs, cache, fuse, web, faulted, hist>>

\* index_tape closing its connection without a commit
idx_commit_forgotten ==
    /\ rc_pc = "idx_commit"
    /\ sql_rollback("idx")
    /\ RcGoto("idx_umount", rc)
    /\ UNCHANGED <<hw, ltfs, cache, fuse, clock, web, faulted, hist>>

\* lines 222-223: conn.commit(), conn.close()
idx_commit ==
    /\ rc_pc = "idx_commit"
    /\ sql_commit("idx")
    /\ RcGoto("idx_umount", [rc EXCEPT !.indexed = @ \cup {rc.vol},
                                       !.reindexed = @ \cup ({rc.vol} \cap rc.indexed)])
    /\ UNCHANGED <<hw, ltfs, cache, fuse, clock, web, faulted, hist>>

\* lines 226-230 (finally): unmount; a failure leaves by the exception
idx_umount ==
    /\ rc_pc = "idx_umount"
    /\ \E ok \in BOOLEAN :
        /\ umount(rc.vol, ok)
        /\ IF ok /\ rc.loaded_by_us
           THEN RcGoto("idx_unload_back", rc) /\ UNCHANGED db
           ELSE IdxLeave(~ok)
    /\ UNCHANGED <<ltfs, cache, fuse, clock, web>>

\* lines 230-232 (finally): mtx unload <slot> 0
idx_unload_back ==
    /\ rc_pc = "idx_unload_back"
    /\ \E ok \in BOOLEAN : mtx_unload_to(rc.slot_id, ok) /\ IdxLeave(~ok)
    /\ UNCHANGED <<ltfs, cache, fuse, clock, web>>

\* --------------------------------------------------- the web route delete_tape
\* the route leaving the files rows in place
web_delete_files_forgotten ==
    /\ web_pc = "idle"
    /\ \E v \in Tags :
        /\ sql_write("web", TxTapes("web"), TxFiles("web"), TxSeq("web"))
        /\ web_vol' = v
    /\ web_pc' = "delete_tapes"
    /\ UNCHANGED <<hw, ltfs, cache, fuse, boot, faulted, hist>>

\* line 630: DELETE FROM files (the request waits for the write lock)
web_delete_files ==
    /\ web_pc = "idle"
    /\ \E v \in Tags :
        /\ sql_delete_files("web", v)
        /\ web_vol' = v
    /\ web_pc' = "delete_tapes"
    /\ UNCHANGED <<hw, ltfs, cache, fuse, boot, faulted, hist>>

\* line 631: DELETE FROM tapes
web_delete_tapes ==
    /\ web_pc = "delete_tapes"
    /\ sql_delete_tapes("web", web_vol)
    /\ web_pc' = "commit"
    /\ UNCHANGED <<hw, ltfs, cache, fuse, boot, web_vol, faulted, hist>>

\* lines 632-634: conn.commit(), conn.close()
web_commit ==
    /\ web_pc = "commit"
    /\ sql_commit("web")
    /\ web_pc' = "idle"
    /\ UNCHANGED <<hw, ltfs, cache, fuse, boot, web_vol, faulted, hist>>

\* ------------------------------------------------------------ specification
\* Where the tapes are: each in its slot, in the drive, or gone from the library.
InitLibrary ==
    /\ \E loc \in [Tags -> {"slot", "drive", "gone"}] :
        /\ Cardinality({g \in Tags : loc[g] = "drive"}) <= 1
        /\ slots = [s \in Slots |->
                      IF \E g \in Tags : HomeSlot(g) = s /\ loc[g] = "slot"
                      THEN CHOOSE g \in Tags : HomeSlot(g) = s /\ loc[g] = "slot"
                      ELSE None]
        /\ drive = IF \E g \in Tags : loc[g] = "drive"
                   THEN CHOOSE g \in Tags : loc[g] = "drive" ELSE None
    /\ drive_src = IF drive = None THEN None ELSE HomeSlot(drive)
    /\ mnt = None

InitIdle ==
    /\ db_lock = None
    /\ tx_tapes = {}
    /\ tx_files = {}
    /\ tx_seq = 0
    /\ clock = 1
    /\ tape_lock = Free
    /\ pc = [t \in Threads |-> "idle"]
    /\ fr = [t \in Threads |-> Frame0]
    /\ web_pc = "idle"
    /\ web_vol = None
    /\ faulted = FALSE
    /\ hist = Hist0

\* The serving phase (FUSE running): the catalog as the reconciler left it,
\* the library possibly changed since, the cache empty.
Init ==
    /\ InitLibrary
    /\ InitIdle
    /\ ltfs = [g \in Tags |-> FullContent(g)]
    /\ cache = [k \in Keys |-> "absent"]
    /\ tapes = {TapeRow(g, 0, g) : g \in Tags}
    /\ files = Numbered(UNION {RowsOf(g, ltfs[g]) : g \in Tags}, 0)
    /\ seq = Cardinality(files)
    /\ rc_pc = "rec_done"
    /\ rc = Rc0

ThreadNext(t) ==
    \/ open_lookup(t)
    \/ open_exists(t)
    \/ fetch_lock(t)
    \/ fetch_exists(t)
    \/ fetch_probe(t)
    \/ fetch_unload(t)
    \/ fetch_load(t)
    \/ fetch_mount(t)
    \/ fetch_copy(t)
    \/ fetch_copying(t)
    \/ fetch_umount(t)
    \/ fetch_unload_back(t)
    \/ open_recheck(t)
    \/ open_return(t)

Next == \E t \in Threads : ThreadNext(t)

Spec == Init /\ [][Next]_vars

\* Every external command terminates and every thread that can take a step
\* (a caller of fetch_file: when tape_lock is free) is eventually scheduled.
SpecLive == Spec /\ \A t \in Threads : WF_vars(ThreadNext(t))

\* index_tape called on any tapes of the library, time and again, on a
\* catalog that holds them or not.
InitIndex ==
    /\ InitLibrary
    /\ InitIdle
    /\ ltfs = [g \in Tags |-> FullContent(g)]
    /\ cache = [k \in Keys |-> "absent"]
    /\ \E known \in SUBSET Tags :
        /\ tapes = {TapeRow(g, 0, g) : g \in known}
        /\ files = Numbered(UNION {RowsOf(g, FullContent(g)) : g \in known}, 0)
    /\ seq = Cardinality(files)
    /\ rc_pc = "rec_index"
    /\ \E chosen \in SUBSET PresentTags :
          rc = [Rc0 EXCEPT !.tapes_in_library = slots, !.drive_loaded = drive,
                           !.todo = chosen]

NextIndex ==
    \/ rec_index
    \/ index_again
    \/ idx_unload
    \/ idx_load
    \/ idx_mount
    \/ idx_delete
    \/ idx_walk
    \/ idx_replace
    \/ idx_commit
    \/ idx_umount
    \/ idx_unload_back

SpecIndex == InitIndex /\ [][NextIndex]_vars

\* The serving phase seen by getattr and readdir: every tape in its slot and
\* indexed, holding any of the files of NamePaths (two tapes may hold the
\* same path, a tape may be empty).
InitNames ==
    /\ slots = [s \in Slots |-> CHOOSE g \in Tags : HomeSlot(g) = s]
    /\ drive = None
    /\ drive_src = None
    /\ mnt = None
    /\ InitIdle
    /\ ltfs \in [Tags -> SUBSET NamePaths]
    /\ cache = [k \in Keys |-> "absent"]
    /\ tapes = {TapeRow(g, 0, g) : g \in Tags}
    /\ files = Numbered(UNION {RowsOf(g, ltfs[g]) : g \in Tags}, 0)
    /\ seq = Cardinality(files)
    /\ rc_pc = "rec_done"
    /\ rc = Rc0

NextNames ==
    \E t \in Threads :
        \/ getattr_call(t)
        \/ readdir_call(t)
        \/ open_return(t)

SpecNames == InitNames /\ [][NextNames]_vars

\* The startup phase: the catalog as the last run left it (any set of tapes
\* indexed in full), the web thread started, inventory_and_index about to run.
InitStartup ==
    /\ InitLibrary
    /\ InitIdle
    /\ \E b \in SUBSET FullContent(VOL002) :
          ltfs = [g \in Tags |-> IF g = VOL002 THEN b ELSE FullContent(g)]
    /\ cache = [k \in Keys |-> "absent"]
    /\ \E known \in SUBSET Tags :
        /\ tapes = {TapeRow(g, 0, g) : g \in known}
        /\ files = Numbered(UNION {RowsOf(g, FullContent(g)) : g \in known}, 0)
    /\ seq = Cardinality(files)
    /\ rc_pc = "rec_probe"
    /\ rc = Rc0

NextStartup ==
    \/ rec_probe
    \/ rec_select
    \/ rec_drop_files
    \/ rec_drop_tapes
    \/ rec_commit
    \/ rec_index
    \/ rec_return
    \/ idx_unload
    \/ idx_load
    \/ idx_mount
    \/ idx_delete
    \/ idx_walk
    \/ idx_replace
    \/ idx_commit
    \/ idx_umount
    \/ idx_unload_back
    \/ web_delete_files
    \/ web_delete_tapes
    \/ web_commit

SpecStartup == InitStartup /\ [][NextStartup]_vars

\* The reconciler alone, the program started up to MaxRuns times in a row:
\* no web request, no filesystem call in between.
NextRerun ==
    \/ rec_probe
    \/ rec_select
    \/ rec_drop_files
    \/ rec_drop_tapes
    \/ rec_commit
    \/ rec_index
    \/ rec_return
    \/ idx_unload
    \/ idx_load
    \/ idx_mount
    \/ idx_delete
    \/ idx_walk
    \/ idx_replace
    \/ idx_commit
    \/ idx_umount
    \/ idx_unload_back
    \/ restart

SpecRerun == InitStartup /\ [][NextRerun]_vars

\* All the calls arrive before the first of them takes tape_lock.
Simultaneous ==
    (\E u \in Threads : pc[u] = "idle") =>
        /\ tape_lock = Free
        /\ \A t \in Threads : pc[t] \in {"idle", "open_exists", "fetch_lock", "done", "returned"}

NextSimul == Next /\ Simultaneous'

SpecSimul == Init /\ [][NextSimul]_vars

\* ------------------------------------------------------------------ claims
\* A thread is inside a tape session from taking tape_lock to the end of the
\* unmount / unload sequence.
InSession(t) ==
    pc[t] \in {"fetch_exists", "fetch_probe", "fetch_unload", "fetch_load", "fetch_mount",
               "fetch_copy", "fetch_copying", "fetch_umount", "fetch_unload_back"}

\* C1: at most one thread is inside a tape session at a time, and the thread
\* inside is the holder of tape_lock, so the changer and LTFS commands of two
\* fetches never interleave.
C1_OneSession ==
    \A t, u \in Threads :
        InSession(t) => /\ tape_lock = t
                        /\ (InSession(u) => u = t)

C1_Witness ==
    \E t, u \in Threads : pc[t] = "fetch_copying" /\ pc[u] = "fetch_lock"

\* C2: a descriptor returned by open refers to a cache file holding the
\* complete content of the tape file.
C2_DescriptorOnCompleteFile ==
    \A t \in Threads :
        (pc[t] = "done" /\ fr[t].result.kind = "fd") => fr[t].result.content = "complete"

\* C3: when the copy fails, the partial cache file is gone before the session
\* is released and the caller of open gets an error.
C3_FailedCopyRemoved ==
    \A t \in Threads :
        fr[t].copy_failed =>
            /\ (pc[t] \in {"fetch_umount", "fetch_unload_back"} => ~Exists(Key(t)))
            /\ (pc[t] = "done" => fr[t].result.kind = "err")

\* C4: open with write flags fails with a permission / read-only error.
C4_WriteOpenFails ==
    \A t \in Threads :
        (pc[t] = "done" /\ fr[t].result.flags \in {O_WRONLY, O_RDWR}) =>
            (fr[t].result.kind = "err" /\ fr[t].result.errno \in {"EACCES", "EROFS"})

\* C5: an open of a path whose cache file exists when it is called runs no
\* external tool and never takes or waits for tape_lock: it is at its cache
\* check, which it can pass whoever holds the lock, or it has already returned
\* with the result of os.open.
C5_CacheHitNoTape ==
    \A t \in Threads :
        fr[t].cached =>
            /\ ~fr[t].tools
            /\ pc[t] \in {"open_exists", "done"}
            /\ (pc[t] = "open_exists" => ENABLED open_exists(t))
            /\ (pc[t] = "done" => (fr[t].result.kind = "fd" \/ fr[t].result.errno = "EACCES"))

C5_Witness ==
    \E t, u \in Threads :
        /\ t # u
        /\ fr[t].cached /\ pc[t] = "done" /\ fr[t].result.kind = "fd"
        /\ tape_lock = u

\* C6 as claimed: any two fetches of the same (vol_tag, path) copy the file
\* from tape exactly once.
C6_CopiedExactlyOnce ==
    \A t, u \in Threads :
        (t # u /\ pc[t] = "done" /\ pc[u] = "done" /\ fr[t].vol_tag # None /\ Key(t) = Key(u))
            => hist.copied[Key(t)] = 1

\* C6 as amended: a file is copied from tape to the cache at most once, and
\* exactly once when some open returned a descriptor on its complete copy; a
\* caller that finds the cache file after acquiring tape_lock runs no tool.
C6_CopiedAtMostOnce ==
    /\ \A k \in Keys : hist.copied[k] <= 1
    /\ \A t \in Threads :
        /\ fr[t].found => (~fr[t].tools /\ pc[t] \in {"open_recheck", "done"})
        /\ (pc[t] = "done" /\ fr[t].result.kind = "fd" /\ fr[t].result.content = "complete")
               => hist.copied[Key(t)] = 1

C6_Witness ==
    \E t \in Threads :
        /\ fr[t].found /\ pc[t] = "done" /\ fr[t].result.kind = "fd"
        /\ hist.copied[Key(t)] = 1

\* C7: two threads that open two different uncached files of one tape at the
\* same time and both get their descriptors cause one mount cycle of that tape.
C7_OneMountCycle ==
    \A t, u \in Threads :
        ( /\ pc[t] = "done" /\ pc[u] = "done"
          /\ fr[t].vol_tag # None /\ fr[t].vol_tag = fr[u].vol_tag
          /\ fr[t].path # fr[u].path
          /\ ~fr[t].cached /\ ~fr[u].cached
          /\ fr[t].result.kind = "fd" /\ fr[u].result.kind = "fd" )
        => hist.mount[fr[t].vol_tag] = 1

RowsFor(rows, g) == {r \in rows : r.vol_tag = g}
RowsNotFor(rows, gs) == {r \in rows : r.vol_tag \notin gs}
IndexCommits == rc_pc = "idx_commit" /\ rc_pc' = "idx_umount"
WebCommits == web_pc = "commit" /\ web_pc' = "idle"
RecCommits == rc_pc = "rec_drop" /\ rc_pc' \in {"rec_index", "rec_done"}

\* C8: in every state of every interleaving of the reconciler, index_tape
\* and the web tape-delete, each files row has a tapes row with its vol_tag.
C8_ReferentialIntegrity ==
    \A r \in files : \E tp \in tapes : tp.vol_tag = r.vol_tag

\* a web delete has committed while the reconciler is indexing, and a tape
\* indexed in this run has its rows in the catalog
C8_Witness ==
    /\ web_pc = "idle"
    /\ web_vol # None
    /\ web_vol \notin VolTags(tapes)
    /\ rc_pc \in {"idx_umount", "idx_unload_back", "rec_index"}
    /\ \E tp \in tapes : tp.last_seen >= 1 /\ RowsFor(files, tp.vol_tag) # {}

C10_DropAtomic ==
    [][/\ \A g \in Tags :
            (RowsFor(tapes, g) \ tapes' # {} \/ RowsFor(files, g) \ files' # {})
            => (RowsFor(tapes', g) = {} /\ RowsFor(files', g) = {})
       /\ WebCommits =>
            /\ web_vol \notin VolTags(tapes') \cup VolTags(files')
            /\ RowsNotFor(tapes', {web_vol}) = RowsNotFor(tapes, {web_vol})
            /\ RowsNotFor(files', {web_vol}) = RowsNotFor(files, {web_vol})
       /\ RecCommits =>
            /\ rc.missing_tapes \cap (VolTags(tapes') \cup VolTags(files')) = {}
            /\ RowsNotFor(tapes', rc.missing_tapes) = RowsNotFor(tapes, rc.missing_tapes)
            /\ RowsNotFor(files', rc.missing_tapes) = RowsNotFor(files, rc.missing_tapes)]_vars

\* the reconciler has dropped a missing tape and kept a present one, and the
\* web route has then dropped the other
C10_Witness ==
    /\ rc_pc = "rec_done"
    /\ rc.missing_tapes # {}
    /\ web_pc = "idle"
    /\ web_vol \in Tags \ rc.missing_tapes
    /\ tapes = {}
    /\ files = {}

\* The states of inventory_and_index after its commit of the removals, and
\* the states from which index_tape runs a changer or LTFS command.
AfterDrops == rc_pc \in {"rec_index", "idx_unload", "idx_load", "idx_mount", "idx_delete",
                         "idx_walk", "idx_replace", "idx_commit", "idx_umount",
                         "idx_unload_back", "rec_done"}
IdxToolPcs == {"idx_unload", "idx_load", "idx_mount", "idx_umount", "idx_unload_back"}
ProbedTags == ({rc.tapes_in_library[s] : s \in Slots} \cup {rc.drive_loaded}) \ {None}
NoRows(g) == RowsFor(tapes, g) = {} /\ RowsFor(files, g) = {}

\* C11: once the reconciler has committed its removals, and when it has
\* completed, no tapes row and no files row carries a tag that is absent from
\* the probed inventory; the tape probed in the drive is not among the tapes
\* dropped; getattr of a path that only dropped tapes held returns ENOENT.
C11_AbsentTapesDropped ==
    AfterDrops =>
        /\ VolTags(tapes) \cup VolTags(files) \subseteq ProbedTags
        /\ rc.drive_loaded \notin rc.missing_tapes
        /\ \A g \in rc.missing_tapes : \A p \in FullContent(g) :
              (\A r \in files : r.path # p) => getattr(<<"/">> \o p) = {StErr("ENOENT")}

\* the reconciler has completed: VOL002 was known and is gone, VOL001 was known
\* and stands in the drive; VOL002's file is not found, VOL001's still is
C11_Witness ==
    /\ rc_pc = "rec_done"
    /\ rc.missing_tapes = {VOL002}
    /\ rc.drive_loaded = VOL001
    /\ VolTags(tapes) = {VOL001}
    /\ getattr(<<"/">> \o P_b) = {StErr("ENOENT")}
    /\ \E st \in getattr(<<"/">> \o P_a) : st.kind = "file"

\* C12 as claimed: the second run of the reconciler on the same library
\* changes no catalog row and issues no load, mount or unload.
C12_SecondRunIdle ==
    [][rc.run >= 2 =>
        /\ UNCHANGED <<tapes, files, seq>>
        /\ db_lock' = None
        /\ rc_pc' \notin IdxToolPcs]_vars

\* C12 as amended: when the catalog holds exactly the tapes of the library as
\* the reconciler is run again (the run before catalogued every tape present),
\* that run changes no catalog row, executes no write statement and issues no
\* load, mount or unload; the library stays as it is.
C12_SecondRunIdleInSync ==
    [][(rc.run >= 2 /\ rc.in_sync) =>
        /\ UNCHANGED <<tapes, files, seq>>
        /\ db_lock' = None
        /\ rc_pc' \notin IdxToolPcs
        /\ UNCHANGED hw]_vars

\* the second run has returned, on a catalog the first run has filled
C12_Witness ==
    /\ rc.run = 2
    /\ rc.in_sync
    /\ rc_pc = "rec_done"
    /\ \E tp \in tapes : tp.last_seen >= 1

C14_TapeNotFound ==
    \A t \in Threads :
        ( /\ pc[t] = "done"
          /\ fr[t].vol_tag # None
          /\ fr[t].vol_tag \notin PresentTags
          /\ ~fr[t].cached
          /\ fr[t].result # Err("CalledProcessError") )
        => /\ fr[t].result = Err("EIO")
           /\ ~Exists(Key(t))
           /\ tape_lock # t

\* a call for a file of a tape that is gone has probed the changer and got EIO
C14_Witness ==
    \E t \in Threads :
        /\ pc[t] = "done"
        /\ fr[t].vol_tag \in Tags \ PresentTags
        /\ fr[t].tools
        /\ fr[t].result = Err("EIO")
        /\ tape_lock = Free

\* C18: in a fetch that swaps tapes, the unload is issued when the tape in the
\* drive has been unmounted, the load when the drive has been emptied, and the
\* copy runs on the mounted tape of the file; a descriptor is returned on a
\* file that was copied.
C18_SwapOrder ==
    \A t \in Threads :
        /\ pc[t] = "fetch_unload" => mnt = None
        /\ pc[t] = "fetch_load" => drive = None
        /\ pc[t] \in {"fetch_copy", "fetch_copying"} =>
              (drive = fr[t].vol_tag /\ mnt = fr[t].vol_tag)
        /\ (pc[t] = "done" /\ ~fr[t].cached /\ fr[t].result.kind = "fd") => Exists(Key(t))

\* C19: tape_lock is held only by a thread inside fetch_file; when no thread
\* is inside, whatever way the calls left, the lock is free.
C19_LockReleased ==
    /\ tape_lock \in Threads \cup {Free}
    /\ \A t \in Threads : tape_lock = t => InSession(t)
    /\ (\A t \in Threads : ~InSession(t)) => tape_lock = Free

\* a call has left fetch_file by the exception of a command, the lock is free
\* and another caller is about to take it
C19_Witness ==
    \E t, u \in Threads :
        /\ pc[t] = "done" /\ fr[t].result = Err("CalledProcessError")
        /\ pc[u] = "fetch_lock"
        /\ tape_lock = Free

\* C20: every open call that has started eventually returns a descriptor or
\* an error.
C20_EveryCallReturns ==
    \A t \in Threads : (pc[t] # "idle") ~> (pc[t] \in {"done", "returned"})

\* all the calls have come back, one of them from a failed command and one
\* with a descriptor after a fetch
C20_Witness ==
    /\ \A t \in Threads : pc[t] \in {"done", "returned"}
    /\ \E t, u \in Threads :
        /\ pc[t] = "done" /\ fr[t].result = Err("CalledProcessError")
        /\ pc[u] = "done" /\ fr[u].result.kind = "fd" /\ fr[u].tools

\* What the claims on names speak of: the catalog path a kernel path stands
\* for, a string beginning literally with another, the catalog paths.
CatalogPath(path) == Tail(path)
BeginsWith(str, pre) == Len(pre) <= Len(str) /\ SubSeq(str, 1, Len(pre)) = pre
CatalogPaths == {r.path : r \in files}
Under(path) ==
    IF path = <<"/">> THEN CatalogPaths
    ELSE {p \in CatalogPaths : BeginsWith(p, CatalogPath(path) \o <<"/">>)}

\* C15: what getattr returned is: for '/', a directory (0755, nlink 2); for a
\* path equal to a catalog path, a regular file (0444, nlink 1) with the size
\* and mtime of a catalog row of that path; otherwise a directory when some
\* catalog path begins with path + '/', and not-found when none does.
C15_GetattrResolution ==
    \A t \in Threads :
        (pc[t] = "done" /\ fr[t].result.kind \in {"dir", "file", "err"}) =>
            LET path == fr[t].path
                st == fr[t].result
            IN  IF path = <<"/">> THEN st = StDir
                ELSE IF CatalogPath(path) \in CatalogPaths
                THEN \E r \in files : r.path = CatalogPath(path) /\ st = StFile(r)
                ELSE IF Under(path) # {} THEN st = StDir
                ELSE st = StErr("ENOENT")

\* C16: what readdir returned is '.', '..' and then, each once, exactly the
\* first segments of what follows path + '/' in the catalog paths that begin
\* with it (of all catalog paths for the root), whatever tapes hold them.
C16_ReaddirEntries ==
    \A t \in Threads :
        (pc[t] = "done" /\ fr[t].result.kind = "dirents") =>
            LET path == fr[t].path
                d == fr[t].result.dirents
                prefix == IF path = <<"/">> THEN <<>> ELSE CatalogPath(path) \o <<"/">>
            IN  /\ Len(d) >= 2 /\ d[1] = <<".">> /\ d[2] = <<".", ".">>
                /\ \A i, j \in 3..Len(d) : d[i] = d[j] => i = j
                /\ {d[i] : i \in 3..Len(d)} =
                       {FirstSegment(SubSeq(p, Len(prefix) + 1, Len(p))) : p \in Under(path)}

\* The tape in the drive holds what the catalog holds under the tag being
\* indexed; a tapes row without its last_seen.
ContentsUnchanged ==
    /\ drive # None
    /\ RowsFor(tapes, rc.vol) = {TapeRow(rc.vol, r.last_seen, drive) : r \in RowsFor(tapes, rc.vol)}
    /\ Cardinality(RowsFor(tapes, rc.vol)) = 1
    /\ {Cols(r) : r \in RowsFor(files, rc.vol)} = RowsOf(rc.vol, ltfs[drive])
    /\ Cardinality(RowsFor(files, rc.vol)) = Cardinality(ltfs[drive])
Timeless(tp) == [vol_tag |-> tp.vol_tag, total_space |-> tp.total_space,
                 free_space |-> tp.free_space]

\* C17 as claimed: the commit of an indexing of a tape whose contents the
\* catalog already holds leaves the files rows as they were and the tapes
\* rows as they were but for last_seen.
C17_ReindexSameRows ==
    [][(IndexCommits /\ ContentsUnchanged) =>
        /\ files' = files
        /\ {Timeless(tp) : tp \in tapes'} = {Timeless(tp) : tp \in tapes}
        /\ Cardinality(tapes') = Cardinality(tapes)]_vars

\* C17 as amended: such a commit leaves every files row of another tag and
\* every tapes row but for the tag's last_seen as it was, and the same number
\* of files rows for the tag with the same vol_tag, path, size and mtime,
\* under ids that were never issued before.
C17_ReindexSameColumns ==
    [][(IndexCommits /\ ContentsUnchanged) =>
        /\ {Cols(r) : r \in files'} = {Cols(r) : r \in files}
        /\ Cardinality(files') = Cardinality(files)
        /\ RowsNotFor(files', {rc.vol}) = RowsNotFor(files, {rc.vol})
        /\ \A r \in RowsFor(files', rc.vol) : r.id > seq
        /\ {Timeless(tp) : tp \in tapes'} = {Timeless(tp) : tp \in tapes}
        /\ Cardinality(tapes') = Cardinality(tapes)
        /\ RowsNotFor(tapes', {rc.vol}) = RowsNotFor(tapes, {rc.vol})]_vars

\* index_tape has committed for the second time on a tape with files, next
\* to the rows of another tape
C17_Witness ==
    /\ rc_pc = "idx_umount"
    /\ rc.vol \in rc.reindexed
    /\ Cardinality(RowsFor(files, rc.vol)) = Cardinality(FullContent(rc.vol))
    /\ RowsFor(files, rc.vol) # {}
    /\ RowsNotFor(files, {rc.vol}) # {}
    /\ Cardinality(RowsFor(tapes, rc.vol)) = 1

\* The states from which a FUSE thread, and the main thread, run a changer or
\* LTFS command next; the steps that end a tape session of fetch_file and of
\* index_tape.
FetchToolPcs == {"fetch_probe", "fetch_unload", "fetch_load", "fetch_mount",
                 "fetch_umount", "fetch_unload_back"}
RecToolPcs == {"rec_probe"} \cup IdxToolPcs
\* The main thread, which runs inventory_and_index, as a holder of tape_lock
MainThread == NumThreads + 1
FetchSessionEnds(t) ==
    pc[t] \in {"fetch_umount", "fetch_unload_back"} /\ tape_lock = t /\ tape_lock' = Free
IdxSessionEnds == rc_pc \in {"idx_umount", "idx_unload_back"} /\ rc_pc' = "rec_index"

\* C21: when the mount fails in a session that loaded the tape from a slot,
\* the session goes on from its unmount to the unload of the tape, in
\* fetch_file and in index_tape, and the caller of open gets an error.
C21_MountFailureUnloads ==
    [][/\ \A t \in Threads :
            /\ (pc[t] = "fetch_umount" /\ fr[t].mount_failed /\ ~fr[t].in_drive
                  /\ pc'[t] # "fetch_umount") => pc'[t] = "fetch_unload_back"
            /\ (pc'[t] = "done" /\ fr'[t].mount_failed) => fr'[t].result.kind = "err"
       /\ (rc_pc = "idx_umount" /\ rc.mount_failed /\ rc.loaded_by_us
             /\ rc_pc' # "idx_umount") => rc_pc' = "idx_unload_back"]_vars

\* C22: an open whose copy succeeded returns a descriptor on the complete
\* file, and an index_tape that committed does not raise, whatever the
\* unmount and the final unload did.
C22_ReleaseFailureSilent ==
    /\ \A t \in Threads :
          (pc[t] = "done" /\ fr[t].copied) =>
              (fr[t].result.kind = "fd" /\ fr[t].result.content = "complete")
    /\ rc.indexed \cap rc.failed = {}

\* C23: the step that ends a tape session leaves the session's mount point
\* unmounted unless a command failed in it that the library permitted; a session that loaded the tape ends by its unload to the slot
\* (also after a failed unmount), and the unload leaves the tape in its slot;
\* a session that found the tape in the drive leaves the drive and the slots
\* as they were.
C23_ReleaseRestoresDrive ==
    [][/\ \A t \in Threads : FetchSessionEnds(t) =>
            /\ faulted' = faulted => mnt' # fr[t].vol_tag
            /\ IF fr[t].in_drive
               THEN drive' = fr[t].vol_tag /\ slots' = slots
               ELSE /\ pc[t] = "fetch_unload_back"
                    /\ drive' = None => slots'[fr[t].slot_id] = fr[t].vol_tag
       /\ IdxSessionEnds =>
            /\ faulted' = faulted => mnt' # rc.vol
            /\ IF rc.loaded_by_us
               THEN /\ rc_pc = "idx_unload_back"
                    /\ drive' = None => slots'[rc.slot_id] = rc.vol
               ELSE drive' = drive /\ slots' = slots]_vars

\* C24: a thread about to run a changer or LTFS command holds tape_lock: a
\* FUSE thread in fetch_file, the main thread in inventory_and_index and
\* index_tape.
C24_ToolsUnderLock ==
    /\ \A t \in Threads : pc[t] \in FetchToolPcs => tape_lock = t
    /\ rc_pc \in RecToolPcs => tape_lock = MainThread

\* C25: when no command has failed that the library permitted, the reconciler
\* returns with a tapes row for every tape it probed, in a slot or in the drive.
C25_ReconciliationComplete ==
    (rc_pc = "rec_done" /\ ~faulted) => ProbedTags \subseteq VolTags(tapes)

\* C26: when index_tape commits files rows under a tag, the tape in the drive,
\* mounted for the walk, is the tape of that tag.
C26_NoCrossAttribution ==
    [][(IndexCommits /\ RowsFor(files', rc.vol) # {}) =>
           (drive = rc.vol /\ mnt = rc.vol)]_vars

====
